---------------------------- MODULE Spec2Model ----------------------------
(***************************************************************************)
(* A model of epoi_converter/convert.py: the program-description codec      *)
(* (Effect, Program), the name normalizer (convert_names), the program      *)
(* transformer (replaced_images) and the command-line run.                  *)
(*                                                                          *)
(* A Python str is a sequence of one-character strings.  A raised           *)
(* exception is a result record with ok = FALSE and the exception's type.   *)
(* A dict is the sequence of its [k, v] items in insertion order.           *)
(***************************************************************************)
EXTENDS Integers, Sequences, FiniteSets, TLC

VARIABLES
    pc,         \* position of the operation under study / of the command-line run
    arg,        \* input of the pure operation under study
    text,       \* serialized program text (str(program))
    ret,        \* what the operation returned or raised
    argc,       \* len(sys.argv)
    in_dir,     \* input directory: lines of program.txt, identifiers having a .bmp
    out_dir,    \* output directory: exists, copied asset names, program.txt content
    prog,       \* __main__: prog
    images,     \* __main__: images (the mapping returned by convert_names)
    new_prog,   \* __main__: new_prog
    todo,       \* copy_images: items of the dict not yet iterated
    exc,        \* the exception that aborted the run, if any
    pos,        \* convert_names: position of the running loop in its list
    used_numbers, \* convert_names: used_numbers
    result      \* convert_names: result

main_vars == <<argc, in_dir, out_dir, prog, images, new_prog, todo, exc>>
names_vars == <<pos, used_numbers, result>>
vars == <<pc, arg, text, ret, main_vars, names_vars>>

None == [none |-> TRUE]

NoException == [type |-> "none", at |-> "none"]

\* no command-line run / no call of convert_names in progress
MainIdle ==
    /\ argc = 0 /\ in_dir = None /\ out_dir = None /\ prog = None /\ images = None
    /\ new_prog = None /\ todo = <<>> /\ exc = NoException
NamesIdle == pos = 0 /\ used_numbers = {} /\ result = <<>>

-----------------------------------------------------------------------------
(* Python built-ins used by the code *)

Min(S) == CHOOSE x \in S : \A y \in S : x <= y
Max(S) == CHOOSE x \in S : \A y \in S : x >= y

\* characters str.strip() removes (those that can occur in the modelled texts)
Whitespace == {" ", "\n", "\t", "\r"}

\* s.strip()
strip(s) ==
    LET keep == {i \in 1..Len(s) : s[i] \notin Whitespace}
    IN  IF keep = {} THEN <<>> ELSE SubSeq(s, Min(keep), Max(keep))

RECURSIVE split(_, _)
\* s.split(sep) for a one-character sep: cuts at every occurrence of sep,
\* keeps empty parts, always returns at least one part
split(s, sep) ==
    LET hits == {i \in 1..Len(s) : s[i] = sep}
    IN  IF hits = {} THEN <<s>>
        ELSE <<SubSeq(s, 1, Min(hits) - 1)>>
                 \o split(SubSeq(s, Min(hits) + 1, Len(s)), sep)

RECURSIVE join(_, _)
\* sep.join(parts)
join(sep, parts) ==
    IF parts = <<>> THEN <<>>
    ELSE IF Len(parts) = 1 THEN parts[1]
    ELSE parts[1] \o sep \o join(sep, Tail(parts))

RECURSIVE file_lines(_)
\* [line for line in f]: the text cut after every "\n", terminators kept
file_lines(t) ==
    LET hits == {i \in 1..Len(t) : t[i] = "\n"}
    IN  IF t = <<>> THEN <<>>
        ELSE IF hits = {} THEN <<t>>
        ELSE <<SubSeq(t, 1, Min(hits))>> \o file_lines(SubSeq(t, Min(hits) + 1, Len(t)))

Raise(type) == [ok |-> FALSE, error |-> type]
Return(v) == [ok |-> TRUE, value |-> v]

-----------------------------------------------------------------------------
(* Record codec *)

\* parse_key_value cutting at the first "-" only (split("-", 1))
parse_key_value_first(s) ==
    LET arr == split(s, "-")
    IN  IF Len(arr) < 2 THEN Raise("AssertionError")
        ELSE Return([key |-> strip(arr[1]),
                     value |-> strip(SubSeq(s, Len(arr[1]) + 2, Len(s)))])

\* parse_key_value
parse_key_value(s) ==
    LET arr == split(s, "-")
    IN  IF Len(arr) # 2 THEN Raise("AssertionError")
        ELSE Return([key |-> strip(arr[1]), value |-> strip(arr[2])])

\* Effect.__str__
Effect_str(e) == e.image \o <<" ", "-", " ">> \o join(<<" ">>, <<e.duration>> \o e.others)

\* Effect.parse
Effect_parse(line) ==
    LET kv == parse_key_value(line)
    IN  IF ~kv.ok THEN kv
        ELSE LET toks == split(kv.value.value, " ")
             IN  Return([image |-> kv.value.key, duration |-> Head(toks),
                         others |-> Tail(toks)])

\* to_yes_no
to_yes_no(b) == IF b THEN <<"y", "e", "s">> ELSE <<"n", "o">>

\* yes_no_to_bool without the assertion
yes_no_to_bool_unchecked(yes_no) == Return(yes_no = <<"y", "e", "s">>)

\* yes_no_to_bool
yes_no_to_bool(yes_no) ==
    IF yes_no \notin {<<"y", "e", "s">>, <<"n", "o">>} THEN Raise("AssertionError")
    ELSE Return(yes_no = <<"y", "e", "s">>)

KeyFinish == <<"F", "i", "n", "i", "s", "h">>
KeyRepeat == <<"R", "e", "p", "e", "a", "t", " ", "a", "f", "t", "e", "r", " ", "f", "i", "n", "i", "s", "h">>
KeyLock == <<"L", "o", "c", "k", " ", "b", "u", "t", "t", "o", "n", "s">>

\* f"{k} - {v}"
kv_str(k, v) == k \o <<" ", "-", " ">> \o v

\* Program.__str__ writing the trailer lines in another order
Program_str_swapped(p) ==
    LET eff == join(<<"\n">>, [i \in 1..Len(p.effects) |-> Effect_str(p.effects[i])])
        kvs_str == join(<<"\n">>, <<kv_str(KeyFinish, p.finish_time),
                                    kv_str(KeyLock, to_yes_no(p.lock_buttons)),
                                    kv_str(KeyRepeat, to_yes_no(p.repeat_after_finish))>>)
    IN  eff \o <<"\n">> \o kvs_str

\* Program.__str__
Program_str(p) ==
    LET eff == join(<<"\n">>, [i \in 1..Len(p.effects) |-> Effect_str(p.effects[i])])
        kvs_str == join(<<"\n">>, <<kv_str(KeyFinish, p.finish_time),
                                    kv_str(KeyRepeat, to_yes_no(p.repeat_after_finish)),
                                    kv_str(KeyLock, to_yes_no(p.lock_buttons))>>)
    IN  eff \o <<"\n">> \o kvs_str

\* the loop of Program.parse_lines over lines[:-3]: a line that Effect.parse
\* rejects raises RuntimeError
parse_effects(ls) ==
    LET parsed == [k \in 1..Len(ls) |-> Effect_parse(ls[k])]
    IN  IF \E k \in 1..Len(ls) : ~parsed[k].ok THEN Raise("RuntimeError")
        ELSE Return([k \in 1..Len(ls) |-> parsed[k].value])

\* get_value inside Program.parse_lines
get_value(line, expected_key) ==
    LET kv == parse_key_value(line)
    IN  IF ~kv.ok THEN kv
        ELSE IF kv.value.key # expected_key THEN Raise("AssertionError")
        ELSE Return(kv.value.value)

\* Program.parse_lines
Program_parse_lines(ls) ==
    IF ~(Len(ls) > 3) THEN Raise("AssertionError")
    ELSE
    LET n == Len(ls)
        effects == parse_effects(SubSeq(ls, 1, n - 3))
        finish == get_value(ls[n - 2], KeyFinish)
        rep_v == get_value(ls[n - 1], KeyRepeat)
        rep == IF rep_v.ok THEN yes_no_to_bool(rep_v.value) ELSE rep_v
        lock_v == get_value(ls[n], KeyLock)
        lock == IF lock_v.ok THEN yes_no_to_bool(lock_v.value) ELSE lock_v
    IN  IF ~effects.ok THEN effects
        ELSE IF ~finish.ok THEN finish
        ELSE IF ~rep.ok THEN rep
        ELSE IF ~lock.ok THEN lock
        ELSE Return([effects |-> effects.value, finish_time |-> finish.value,
                     repeat_after_finish |-> rep.value, lock_buttons |-> lock.value])

-----------------------------------------------------------------------------
(* Effect.parse applied to one line *)

LineChars == {"a", "5", "-", " "}
MaxLineLen == 5

ExampleLine == <<"a", " ", "-", " ", "5", " ", "x", "-", "y">>
SpacedLine == <<"a", " ", "-", " ", "5", " ", " ", "x">>

EffectLines ==
    UNION {[1..n -> LineChars] : n \in 0..MaxLineLen} \cup {ExampleLine, SpacedLine}

InitEffectParse ==
    /\ pc = "start"
    /\ arg \in EffectLines
    /\ text = <<>> /\ ret = None /\ MainIdle /\ NamesIdle

ParseEffect ==
    /\ pc = "start"
    /\ ret' = Effect_parse(arg)
    /\ pc' = "done"
    /\ UNCHANGED <<arg, text, main_vars, names_vars>>

SpecEffectParse == InitEffectParse /\ [][ParseEffect]_vars


CountChar(s, c) == Cardinality({i \in 1..Len(s) : s[i] = c})
HasChar(s, C) == \E i \in 1..Len(s) : s[i] \in C

\* positions where " - " starts in s
SepAt(s) == {i \in 1..(Len(s) - 2) : SubSeq(s, i, i + 2) = <<" ", "-", " ">>}

RECURSIVE WhitespaceTokens(_)
\* the non-empty maximal runs of non-whitespace characters of s, in order
WhitespaceTokens(s) ==
    LET t == strip(s)
        ws == {i \in 1..Len(t) : t[i] \in Whitespace}
    IN  IF t = <<>> THEN <<>>
        ELSE IF ws = {} THEN <<t>>
        ELSE <<SubSeq(t, 1, Min(ws) - 1)>> \o WhitespaceTokens(SubSeq(t, Min(ws) + 1, Len(t)))

\* C2 as stated: a line holding " - " parses, cut at its first " - " only, the
\* text before it trimmed being the image and the whitespace-separated tokens
\* after it the duration and the others (never an empty token).
C2_FirstSeparatorOnly ==
    (pc = "done" /\ SepAt(arg) # {}) =>
        LET i == Min(SepAt(arg))
            toks == WhitespaceTokens(SubSeq(arg, i + 3, Len(arg)))
        IN  toks # <<>> =>
                ret = Return([image |-> strip(SubSeq(arg, 1, i - 1)),
                              duration |-> Head(toks), others |-> Tail(toks)])

\* C2 amended: Effect.parse succeeds exactly on the lines holding one "-"
\* character; then the image is the trimmed text before it, and duration
\* followed by others are the pieces of the trimmed text after it between
\* single spaces (joining them with one space gives that text back, no piece
\* holds a space), so a run of spaces gives empty pieces.
C2_SingleDashSplit ==
    pc = "done" =>
        /\ ret.ok <=> CountChar(arg, "-") = 1
        /\ ret.ok =>
            LET i == CHOOSE i \in 1..Len(arg) : arg[i] = "-"
                e == ret.value
                toks == <<e.duration>> \o e.others
            IN  /\ e.image = strip(SubSeq(arg, 1, i - 1))
                /\ join(<<" ">>, toks) = strip(SubSeq(arg, i + 1, Len(arg)))
                /\ \A k \in 1..Len(toks) : ~HasChar(toks[k], {" "})

\* a line with a run of spaces parsed into an empty token
C2_Witness ==
    /\ pc = "done" /\ arg = SpacedLine
    /\ ret.ok /\ ret.value.others = <<<<>>, <<"x">>>>

-----------------------------------------------------------------------------
(* Program.parse_lines applied to a list of lines *)

MaxLines == 4

LinePool ==
    { <<"a", " ", "-", " ", "5", " ", "f", "a", "d", "e", "\n">>,
      <<"\n">>,
      <<"a", "-", "b", " ", "-", " ", "5", "\n">>,
      <<"F", "i", "n", "i", "s", "h", " ", "-", " ", "1", "8", ":", "0", "0", "\n">>,
      <<"F", "i", "n", "i", "s", "h", " ", "1", "8", ":", "0", "0", "\n">>,
      <<"R", "e", "p", "e", "a", "t", " ", "a", "f", "t", "e", "r", " ", "f", "i", "n", "i", "s", "h", " ", "-", " ", "y", "e", "s", "\n">>,
      <<"R", "e", "p", "e", "a", "t", " ", "a", "f", "t", "e", "r", " ", "f", "i", "n", "i", "s", "h", " ", "-", " ", "m", "a", "y", "b", "e", "\n">>,
      <<"L", "o", "c", "k", " ", "b", "u", "t", "t", "o", "n", "s", " ", "-", " ", "n", "o">>,
      <<"L", "o", "c", "k", " ", "b", "u", "t", "t", "o", "n", "s", " ", "-", " ", "Y", "e", "s">> }

\* the example program text of the specification, as the lines of a file
ExampleProgramLines ==
    << <<"s", "u", "n", "s", "e", "t", " ", "-", " ", "5", " ", "f", "a", "d", "e", "\n">>,
       <<"o", "c", "e", "a", "n", " ", "-", " ", "3", "\n">>,
       <<"F", "i", "n", "i", "s", "h", " ", "-", " ", "1", "8", ":", "0", "0", "\n">>,
       <<"R", "e", "p", "e", "a", "t", " ", "a", "f", "t", "e", "r", " ", "f", "i", "n", "i", "s", "h", " ", "-", " ", "y", "e", "s", "\n">>,
       <<"L", "o", "c", "k", " ", "b", "u", "t", "t", "o", "n", "s", " ", "-", " ", "n", "o", "\n">> >>

LineLists == UNION {[1..n -> LinePool] : n \in 0..MaxLines} \cup {ExampleProgramLines}

InitParseLines ==
    /\ pc = "start"
    /\ arg \in LineLists
    /\ text = <<>> /\ ret = None /\ MainIdle /\ NamesIdle

ParseLines ==
    /\ pc = "start"
    /\ ret' = Program_parse_lines(arg)
    /\ pc' = "done"
    /\ UNCHANGED <<arg, text, main_vars, names_vars>>

SpecParseLines == InitParseLines /\ [][ParseLines]_vars

\* the trimmed text before / after the "-" of a line holding exactly one
KeyOf(line) == strip(SubSeq(line, 1, (CHOOSE i \in 1..Len(line) : line[i] = "-") - 1))
ValueOf(line) == strip(SubSeq(line, (CHOOSE i \in 1..Len(line) : line[i] = "-") + 1, Len(line)))

TooFewLines(ls) == Len(ls) < 4
BadSplit(ls) == \E i \in 1..Len(ls) : CountChar(ls[i], "-") # 1
BadTrailerKey(ls) ==
    /\ ~TooFewLines(ls) /\ ~BadSplit(ls)
    /\ \/ KeyOf(ls[Len(ls) - 2]) # KeyFinish
       \/ KeyOf(ls[Len(ls) - 1]) # KeyRepeat
       \/ KeyOf(ls[Len(ls)]) # KeyLock
BadBoolean(ls) ==
    /\ ~TooFewLines(ls) /\ ~BadSplit(ls)
    /\ \E i \in {Len(ls) - 1, Len(ls)} :
          ValueOf(ls[i]) \notin {<<"y", "e", "s">>, <<"n", "o">>}

\* C3: Program.parse_lines fails and returns no Program when fewer than 4
\* lines are given, when some line does not hold exactly one "-", when a trailer
\* line has another key than the one of its position, or when a boolean trailer
\* value is neither "yes" nor "no".
C3_MalformedInputFails ==
    (pc = "done" /\ (TooFewLines(arg) \/ BadSplit(arg) \/ BadTrailerKey(arg) \/ BadBoolean(arg)))
        => (~ret.ok /\ ret.error \in {"AssertionError", "RuntimeError"})

\* four well-split lines with the right keys whose last value is "Yes": rejected
C3_Witness ==
    /\ pc = "done" /\ Len(arg) = 4
    /\ ~BadSplit(arg) /\ ~BadTrailerKey(arg)
    /\ ValueOf(arg[3]) = <<"y", "e", "s">> /\ ValueOf(arg[4]) = <<"Y", "e", "s">>
    /\ ~ret.ok

-----------------------------------------------------------------------------
(* str(program) followed by Program.parse_lines *)

MaxEffects == 2

Eff(i, d, o) == [image |-> i, duration |-> d, others |-> o]

EffectPool ==
    { Eff(<<"s", "u", "n", "s", "e", "t">>, <<"5">>, << <<"f", "a", "d", "e">> >>),
      Eff(<<"o", "c", "e", "a", "n">>, <<"3">>, <<>>),
      Eff(<<"a", "-", "b">>, <<"5">>, <<>>),
      Eff(<<"a">>, <<"5">>, << <<"x", "-", "y">> >>),
      Eff(<<"a">>, <<"5">>, << <<>>, <<"x">> >>),
      Eff(<<"a">>, <<>>, << <<"x">> >>),
      Eff(<<"a">>, <<>>, <<>>),
      Eff(<<" ", "a">>, <<"5">>, <<>>),
      Eff(<<"a">>, <<"5">>, << <<"x", " ", "y">> >>),
      Eff(<<"a">>, <<"5">>, << <<"x">>, <<>> >>),
      Eff(<<"a">>, <<"5", "\n">>, <<>>),
      Eff(<<"a", " ", "b">>, <<"5">>, << <<"\t", "x">>, <<"y">> >>),
      Eff(<<>>, <<"5">>, <<>>) }

FinishPool == { <<"1", "8", ":", "0", "0">>, <<>>, <<"1", "-", "2">>, <<" ", "1">> }

Programs ==
    [effects : UNION {[1..n -> EffectPool] : n \in 0..MaxEffects},
     finish_time : FinishPool,
     repeat_after_finish : BOOLEAN,
     lock_buttons : BOOLEAN]

InitRoundTrip ==
    /\ pc = "start"
    /\ arg \in Programs
    /\ text = <<>> /\ ret = None /\ MainIdle /\ NamesIdle

Serialize ==
    /\ pc = "start"
    /\ text' = Program_str(arg)
    /\ pc' = "serialized"
    /\ UNCHANGED <<arg, ret, main_vars, names_vars>>

Reparse ==
    /\ pc = "serialized"
    /\ ret' = Program_parse_lines(file_lines(text))
    /\ pc' = "done"
    /\ UNCHANGED <<arg, text, main_vars, names_vars>>

SpecRoundTrip == InitRoundTrip /\ [][Serialize \/ Reparse]_vars

\* C1 as stated: every Program, whatever its effects and field texts, is
\* returned unchanged by parsing the lines of its serialization.
C1_RoundTripAnyProgram ==
    pc = "done" => ret = Return(arg)

\* a text that survives "<key> - <value>": no "-", no line break, nothing
\* that strip() removes at either end
PlainText(s) == ~HasChar(s, {"-", "\n", "\r"}) /\ strip(s) = s

Serializable(p) ==
    /\ Len(p.effects) >= 1
    /\ PlainText(p.finish_time)
    /\ \A i \in 1..Len(p.effects) :
          LET e == p.effects[i]
              toks == <<e.duration>> \o e.others
          IN  /\ PlainText(e.image)
              /\ PlainText(join(<<" ">>, toks))
              /\ \A k \in 1..Len(toks) : ~HasChar(toks[k], {" "})

\* C1 amended: a Program with at least one effect whose image and finish_time
\* hold no "-", no line break and no leading or trailing whitespace, and whose
\* duration and others tokens hold no "-", no space and no line break and,
\* joined by single spaces, neither start nor end with whitespace, is returned
\* unchanged by parsing the lines of its serialization, and serializes again
\* to the same text.
C1_RoundTripSerializable ==
    (pc = "done" /\ Serializable(arg)) =>
        /\ ret = Return(arg)
        /\ Program_str(ret.value) = text

\* a two-effect program with others tokens went through and came back
C1_Witness ==
    /\ pc = "done" /\ Serializable(arg)
    /\ Len(arg.effects) = 2
    /\ arg.effects[1].image # arg.effects[2].image
    /\ Len(arg.effects[1].others) = 2
    /\ ret.ok

-----------------------------------------------------------------------------
(* Name normalizer *)

valid_name_chars ==
    {"q", "w", "e", "r", "t", "y", "u", "i", "o", "p", "a", "s", "d", "f", "g", "h",
     "j", "k", "l", "z", "x", "c", "v", "b", "n", "m",
     "1", "2", "3", "4", "5", "6", "7", "8", "9", "0", "_"}

DigitChars == <<"0", "1", "2", "3", "4", "5", "6", "7", "8", "9">>

\* "sup2" stands for the one character U+00B2, a non-ASCII character for
\* which str.isdigit() is true
isdigit(c) == c \in {DigitChars[i] : i \in 1..10} \cup {"sup2"}

\* int(c) for one ASCII digit
digit_value(c) == (CHOOSE i \in 1..10 : DigitChars[i] = c) - 1

\* int(image[:2])
int_prefix(image) == 10 * digit_value(image[1]) + digit_value(image[2])

\* f"{n:02}"
format_02(n) ==
    IF n < 100 THEN <<DigitChars[(n \div 10) + 1], DigitChars[(n % 10) + 1]>>
    ELSE <<DigitChars[(n \div 100) + 1], DigitChars[((n \div 10) % 10) + 1],
           DigitChars[(n % 10) + 1]>>

\* s[:n]
take(s, n) == SubSeq(s, 1, IF Len(s) < n THEN Len(s) ELSE n)

\* str.lower() on the upper-case letters of the modelled names
lower(c) == CASE c = "M" -> "m" [] c = "V" -> "v" [] c = "B" -> "b" [] OTHER -> c

\* filter_valid_chars lower-casing the name first
filter_valid_chars_casefold(name) ==
    SelectSeq([i \in 1..Len(name) |-> lower(name[i])], LAMBDA c : c \in valid_name_chars)

\* filter_valid_chars
filter_valid_chars(name) == SelectSeq(name, LAMBDA c : c \in valid_name_chars)

\* is_already_numbered rejecting a name of exactly three characters
is_already_numbered_short(name) ==
    IF Len(name) <= 3 THEN FALSE
    ELSE isdigit(name[1]) /\ isdigit(name[2]) /\ name[3] = "_"
         /\ filter_valid_chars(name) = name

\* is_already_numbered
is_already_numbered(name) ==
    IF Len(name) < 3 THEN FALSE
    ELSE isdigit(name[1]) /\ isdigit(name[2]) /\ name[3] = "_"
         /\ filter_valid_chars(name) = name

SlotCount == 100
MaxSlot == 99
NameLimit == 13

\* find_free_number searching range(99)
find_free_number_short(used) ==
    IF (0..(SlotCount - 2)) \ used # {} THEN Min((0..(SlotCount - 2)) \ used)
    ELSE SlotCount

\* find_free_number
find_free_number(used) ==
    IF (0..(SlotCount - 1)) \ used # {} THEN Min((0..(SlotCount - 1)) \ used)
    ELSE SlotCount

\* dict operations: key in d, d[key], d[key] = value
dict_has(d, k) == \E i \in 1..Len(d) : d[i].k = k
dict_get(d, k) == d[CHOOSE i \in 1..Len(d) : d[i].k = k].v
dict_set(d, k, v) ==
    IF dict_has(d, k) THEN [i \in 1..Len(d) |-> IF d[i].k = k THEN [k |-> k, v |-> v] ELSE d[i]]
    ELSE Append(d, [k |-> k, v |-> v])

\* the body of the first loop keeping the name but not recording its number
first_loop_body_no_number(st, image) ==
    IF is_already_numbered(image)
    THEN [st EXCEPT !.result = dict_set(st.result, image, image)]
    ELSE st

\* the body of the first loop of convert_names
first_loop_body(st, image) ==
    IF is_already_numbered(image)
    THEN [st EXCEPT !.result = dict_set(st.result, image, image),
                    !.used_numbers = st.used_numbers \cup {int_prefix(image)}]
    ELSE st

\* the body of the second loop not recording the number it hands out
second_loop_body_no_add(st, image) ==
    IF st.failed \/ dict_has(st.result, image) THEN st
    ELSE LET free_number == find_free_number(st.used_numbers)
         IN  IF ~(free_number <= MaxSlot) THEN [st EXCEPT !.failed = TRUE]
             ELSE [st EXCEPT !.result = dict_set(st.result, image,
                       format_02(free_number) \o <<"_">>
                           \o take(filter_valid_chars(image), NameLimit))]

\* the body of the second loop of convert_names; a failed assertion ends the call
second_loop_body(st, image) ==
    IF st.failed \/ dict_has(st.result, image) THEN st
    ELSE LET free_number == find_free_number(st.used_numbers)
         IN  IF ~(free_number <= MaxSlot) THEN [st EXCEPT !.failed = TRUE]
             ELSE [st EXCEPT !.result = dict_set(st.result, image,
                       format_02(free_number) \o <<"_">>
                           \o take(filter_valid_chars(image), NameLimit)),
                             !.used_numbers = st.used_numbers \cup {free_number}]

-----------------------------------------------------------------------------
(* convert_names applied to a list of identifiers *)

MaxImages == 3

Beach == <<"0", "5", "_", "b", "e", "a", "c", "h">>
Mountain == <<"m", "o", "u", "n", "t", "a", "i", "n">>
Lake == <<"l", "a", "k", "e">>
MountainView == <<"M", "o", "u", "n", "t", "a", "i", "n", " ", "V", "i", "e", "w", "!", "!">>
BarePrefix == <<"0", "5", "_">>
ZeroX == <<"0", "0", "_", "x">>
LongName == <<"a", "_", "v", "e", "r", "y", "_", "l", "o", "n", "g", "_", "n", "a", "m", "e", "_", "4", "2">>
UpperBeach == <<"0", "5", "_", "B", "e", "a", "c", "h">>
SupDigit == <<"sup2", "5", "_", "x">>
LastSlot == <<"9", "9", "_", "z">>

NamePool == {Beach, Mountain, Lake, MountainView, BarePrefix, ZeroX, LongName,
             UpperBeach, SupDigit}

\* the k-th generated identifier "i<ddd>": distinct, none already numbered
GenName(k) == <<"i", DigitChars[(k \div 100) + 1], DigitChars[((k \div 10) % 10) + 1],
                DigitChars[(k % 10) + 1]>>

CapacityAffixes == {<<>>, <<Beach>>, <<Beach, BarePrefix>>, <<LastSlot>>}

\* lists around the capacity boundary: SlotCount - 2 .. SlotCount + 1 generated
\* identifiers, with already-numbered identifiers before and after them
CapacityLists ==
    {pre \o [k \in 1..n |-> GenName(k)] \o post :
        pre \in CapacityAffixes, post \in CapacityAffixes,
        n \in (SlotCount - 2)..(SlotCount + 1)}

ExampleImages == <<Beach, Mountain, Beach, Lake>>

NameLists ==
    UNION {[1..n -> NamePool] : n \in 0..MaxImages} \cup CapacityLists \cup {ExampleImages}

InitNames ==
    /\ pc = "call_convert_names"
    /\ arg \in NameLists
    /\ text = <<>> /\ ret = None /\ MainIdle /\ NamesIdle

\* convert_names(images): entry, used_numbers = set(), result = {}
ConvertNamesEnter ==
    /\ pc = "call_convert_names"
    /\ used_numbers' = {} /\ result' = <<>> /\ pos' = 1
    /\ pc' = "first_loop"
    /\ UNCHANGED <<arg, text, ret, main_vars>>

\* one iteration of "for image in images" (first loop), or its end
FirstLoopStep ==
    /\ pc = "first_loop"
    /\ IF pos > Len(arg)
       THEN /\ pc' = "second_loop" /\ pos' = 1
            /\ UNCHANGED <<used_numbers, result>>
       ELSE LET st == first_loop_body([result |-> result, used_numbers |-> used_numbers,
                                       failed |-> FALSE], arg[pos])
            IN  /\ result' = st.result /\ used_numbers' = st.used_numbers
                /\ pos' = pos + 1 /\ pc' = pc
    /\ UNCHANGED <<arg, text, ret, main_vars>>

\* one iteration of "for image in images" (second loop); the assertion
\* raises out of convert_names
SecondLoopStep ==
    /\ pc = "second_loop"
    /\ pos <= Len(arg)
    /\ LET st == second_loop_body([result |-> result, used_numbers |-> used_numbers,
                                   failed |-> FALSE], arg[pos])
       IN  IF st.failed
           THEN /\ ret' = Raise("AssertionError") /\ pc' = "converted"
                /\ UNCHANGED <<pos, used_numbers, result>>
           ELSE /\ result' = st.result /\ used_numbers' = st.used_numbers
                /\ pos' = pos + 1 /\ pc' = pc /\ ret' = ret
    /\ UNCHANGED <<arg, text, main_vars>>

\* return result
ConvertNamesReturn ==
    /\ pc = "second_loop"
    /\ pos > Len(arg)
    /\ ret' = Return(result) /\ pc' = "converted"
    /\ UNCHANGED <<arg, text, main_vars, names_vars>>

ConvertNamesNext ==
    ConvertNamesEnter \/ FirstLoopStep \/ SecondLoopStep \/ ConvertNamesReturn

SpecNames == InitNames /\ [][ConvertNamesNext]_vars

(* what the claims about convert_names speak of *)

Range(f) == {f[k] : k \in DOMAIN f}

AsciiDigits == {"0", "1", "2", "3", "4", "5", "6", "7", "8", "9"}
LowerLetters ==
    {"a", "b", "c", "d", "e", "f", "g", "h", "i", "j", "k", "l", "m",
     "n", "o", "p", "q", "r", "s", "t", "u", "v", "w", "x", "y", "z"}
AllowedChars == LowerLetters \cup AsciiDigits \cup {"_"}

\* the validity predicate "already normalized"
Normalized(x) ==
    /\ Len(x) >= 3
    /\ x[1] \in AsciiDigits /\ x[2] \in AsciiDigits /\ x[3] = "_"
    /\ \A k \in 1..Len(x) : x[k] \in AllowedChars

DigitOf(c) ==
    CASE c = "0" -> 0 [] c = "1" -> 1 [] c = "2" -> 2 [] c = "3" -> 3 [] c = "4" -> 4
      [] c = "5" -> 5 [] c = "6" -> 6 [] c = "7" -> 7 [] c = "8" -> 8 [] c = "9" -> 9

\* the two-digit number a name starts with
Slot(x) == 10 * DigitOf(x[1]) + DigitOf(x[2])
StartsWithSlot(x) == Len(x) >= 3 /\ x[1] \in AsciiDigits /\ x[2] \in AsciiDigits /\ x[3] = "_"

KeptIds(ids) == {x \in Range(ids) : Normalized(x)}
NewIds(ids) == {x \in Range(ids) : ~Normalized(x)}
TakenSlots(ids) == {Slot(x) : x \in KeptIds(ids)}
FreeSlots(ids) == (0..99) \ TakenSlots(ids)
FirstAt(ids, x) == Min({k \in 1..Len(ids) : ids[k] = x})

\* the mapping a finished call returned, as a function on its keys
Keys(d) == {d[k].k : k \in 1..Len(d)}
Mapped(d, x) == (CHOOSE k \in 1..Len(d) : d[k].k = x)
ValueAt(d, x) == d[Mapped(d, x)].v
Succeeded == pc = "converted" /\ ret.ok

\* C4: a successful convert_names maps every already-normalized identifier
\* of its input to itself, whatever else the input holds.
C4_NormalizedKept ==
    Succeeded => \A x \in KeptIds(arg) : x \in Keys(ret.value) /\ ValueAt(ret.value, x) = x

\* "05_" (three characters, normalized) kept beside a renamed identifier
C4_Witness ==
    /\ Succeeded
    /\ BarePrefix \in Range(arg) /\ ValueAt(ret.value, BarePrefix) = BarePrefix
    /\ NewIds(arg) # {}

\* C5: on success the slots given to the newly mapped identifiers are
\* pairwise different and none is the prefix of an already-normalized
\* identifier of the input.
C5_NewSlotsFresh ==
    Succeeded =>
        /\ \A x \in NewIds(arg) :
              /\ StartsWithSlot(ValueAt(ret.value, x))
              /\ Slot(ValueAt(ret.value, x)) \notin TakenSlots(arg)
        /\ \A x, y \in NewIds(arg) :
              x # y => Slot(ValueAt(ret.value, x)) # Slot(ValueAt(ret.value, y))

\* two new identifiers beside a normalized one holding slot 00
C5_Witness ==
    /\ Succeeded
    /\ Cardinality(NewIds(arg)) >= 2
    /\ ZeroX \in Range(arg)

\* C6 as stated: no two distinct identifiers of the input have mapped values
\* starting with the same slot.
C6_SlotsGloballyUnique ==
    Succeeded =>
        \A x, y \in Range(arg) :
            x # y => Slot(ValueAt(ret.value, x)) # Slot(ValueAt(ret.value, y))

\* C6 amended: the identifiers whose mapped values start with one slot are
\* either a single identifier or all already-normalized identifiers that
\* carry that slot themselves.
C6_SlotSharedOnlyByKept ==
    Succeeded =>
        \A s \in 0..99 :
            LET holders == {x \in Range(arg) : Slot(ValueAt(ret.value, x)) = s}
            IN  Cardinality(holders) <= 1 \/ holders \subseteq KeptIds(arg)

\* two normalized identifiers share slot 05 and a new one got another slot
C6_Witness ==
    /\ Succeeded
    /\ {Beach, BarePrefix} \subseteq Range(arg)
    /\ NewIds(arg) # {}

UsedOnce(ids, d) ==
    \A s \in 0..99 : Cardinality({x \in Range(ids) : Slot(ValueAt(d, x)) = s}) = 1

\* C7 as stated: 100 distinct non-normalized identifiers succeed with every
\* slot used once; more than 100 distinct identifiers fail; more
\* non-normalized identifiers than free slots fail; a failure returns no mapping.
C7_FailsAbove100Distinct ==
    pc = "converted" =>
        /\ (Cardinality(NewIds(arg)) = 100 /\ KeptIds(arg) = {})
              => (ret.ok /\ UsedOnce(arg, ret.value))
        /\ Cardinality(Range(arg)) > 100 => ~ret.ok
        /\ Cardinality(NewIds(arg)) > Cardinality(FreeSlots(arg)) => ~ret.ok
        /\ ~ret.ok => ret = Raise("AssertionError")

\* C7 amended: 100 distinct non-normalized identifiers succeed with every
\* slot used once; the call fails exactly when the distinct non-normalized
\* identifiers outnumber the slots that no already-normalized identifier of
\* the input has as prefix (so more than 100 distinct identifiers succeed when
\* enough of them are already normalized); a failure returns no mapping.
C7_FailsWhenSlotsRunOut ==
    pc = "converted" =>
        /\ (Cardinality(NewIds(arg)) = 100 /\ KeptIds(arg) = {})
              => (ret.ok /\ UsedOnce(arg, ret.value))
        /\ ~ret.ok <=> Cardinality(NewIds(arg)) > Cardinality(FreeSlots(arg))
        /\ ~ret.ok => ret = Raise("AssertionError")

\* exactly 100 new identifiers converted, the last one into slot 99
C7_Witness ==
    /\ Succeeded
    /\ Cardinality(NewIds(arg)) = 100 /\ KeptIds(arg) = {}
    /\ Slot(ValueAt(ret.value, GenName(100))) = 99

\* the k-th smallest free slot
KthFree(ids, k) ==
    CHOOSE s \in FreeSlots(ids) : Cardinality({t \in FreeSlots(ids) : t <= s}) = k
\* x is the Rank-th distinct non-normalized identifier by first occurrence
Rank(ids, x) == Cardinality({y \in NewIds(ids) : FirstAt(ids, y) <= FirstAt(ids, x)})
TwoDigits(n) ==
    LET d == [k \in 0..9 |-> CHOOSE c \in AsciiDigits : DigitOf(c) = k]
    IN  <<d[n \div 10], d[n % 10]>>
Cleaned(x) ==
    LET kept == SelectSeq(x, LAMBDA c : c \in AllowedChars)
    IN  [k \in 1..(IF Len(kept) > 13 THEN 13 ELSE Len(kept)) |-> kept[k]]
ExampleMapping ==
    {[k |-> Beach, v |-> Beach],
     [k |-> Mountain, v |-> <<"0", "0", "_", "m", "o", "u", "n", "t", "a", "i", "n">>],
     [k |-> Lake, v |-> <<"0", "1", "_", "l", "a", "k", "e">>]}

\* C10: on success the mapping has exactly one key per distinct input
\* identifier, and the k-th distinct non-normalized identifier (by first
\* occurrence) is mapped to the k-th smallest slot that is not the prefix of
\* any already-normalized identifier of the whole input, in two digits, then
\* "_", then the first 13 characters left after dropping every character
\* outside the allowed set; the example list gives the example mapping.
C10_KthNewGetsKthFreeSlot ==
    Succeeded =>
        /\ Keys(ret.value) = Range(arg)
        /\ Len(ret.value) = Cardinality(Range(arg))
        /\ \A x \in NewIds(arg) :
              ValueAt(ret.value, x) =
                  TwoDigits(KthFree(arg, Rank(arg, x))) \o <<"_">> \o Cleaned(x)
        /\ arg = ExampleImages => Range(ret.value) = ExampleMapping

\* an identifier with upper case and punctuation, and one longer than 13
\* characters, converted after a normalized identifier that comes later
C10_Witness ==
    /\ Succeeded
    /\ arg = <<MountainView, LongName, ZeroX>>
    /\ ValueAt(ret.value, MountainView) =
          <<"0", "1", "_", "o", "u", "n", "t", "a", "i", "n", "i", "e", "w">>
    /\ ValueAt(ret.value, LongName) =
          <<"0", "2", "_", "a", "_", "v", "e", "r", "y", "_", "l", "o", "n", "g", "_", "n">>

-----------------------------------------------------------------------------
(* Program transformer *)

\* Program.images
Program_images(p) == [k \in 1..Len(p.effects) |-> p.effects[k].image]

\* Effect.replaced_image keeping the image when the mapping has no key for it
Effect_replaced_image_default(e, images_mapping) ==
    IF ~dict_has(images_mapping, e.image) THEN Return(e)
    ELSE Return([e EXCEPT !.image = dict_get(images_mapping, e.image)])

\* Effect.replaced_image: images_mapping[self.image] raises KeyError
Effect_replaced_image(e, images_mapping) ==
    IF ~dict_has(images_mapping, e.image) THEN Raise("KeyError")
    ELSE Return([e EXCEPT !.image = dict_get(images_mapping, e.image)])

\* Program.replaced_images
Program_replaced_images(p, images_mapping) ==
    LET replaced == [k \in 1..Len(p.effects) |->
                        Effect_replaced_image(p.effects[k], images_mapping)]
    IN  IF \E k \in 1..Len(p.effects) : ~replaced[k].ok THEN Raise("KeyError")
        ELSE Return([p EXCEPT !.effects = [k \in 1..Len(p.effects) |-> replaced[k].value]])

-----------------------------------------------------------------------------
(* Program.replaced_images applied to a program and a mapping *)

TransformImages == {Beach, Mountain, Lake}
TransformValues == {Beach, <<"0", "0", "_", "m", "o", "u", "n", "t", "a", "i", "n">>}

TransformEffects ==
    {Eff(img, d.duration, d.others) :
        img \in TransformImages,
        d \in {[duration |-> <<"5">>, others |-> << <<"f", "a", "d", "e">>, <<"x">> >>],
               [duration |-> <<"3">>, others |-> <<>>]}}

TransformPrograms ==
    [effects : UNION {[1..n -> TransformEffects] : n \in 0..MaxEffects},
     finish_time : {<<"1", "8", ":", "0", "0">>},
     repeat_after_finish : BOOLEAN,
     lock_buttons : BOOLEAN]

\* every dict with keys among TransformImages, in every insertion order
TransformMappings ==
    {d \in UNION {[1..n -> [k : TransformImages, v : TransformValues]] :
                     n \in 0..Cardinality(TransformImages)} :
        \A a, b \in 1..Len(d) : a # b => d[a].k # d[b].k}

InitTransform ==
    /\ pc = "start"
    /\ arg \in [program : TransformPrograms, images_mapping : TransformMappings]
    /\ text = <<>> /\ ret = None /\ MainIdle /\ NamesIdle

\* dataclasses.replace builds new objects: the program and the mapping that
\* were passed stay as they are
ReplaceImages ==
    /\ pc = "start"
    /\ ret' = Program_replaced_images(arg.program, arg.images_mapping)
    /\ pc' = "done"
    /\ UNCHANGED <<arg, text, main_vars, names_vars>>

SpecTransform == InitTransform /\ [][ReplaceImages]_vars

\* what replaced_images(p, m) must give: r
Replaced(p, m, r) ==
    IF \A k \in 1..Len(p.effects) : p.effects[k].image \in Keys(m)
    THEN /\ r.ok
         /\ Len(r.value.effects) = Len(p.effects)
         /\ \A k \in 1..Len(p.effects) :
               /\ r.value.effects[k].image = ValueAt(m, p.effects[k].image)
               /\ r.value.effects[k].duration = p.effects[k].duration
               /\ r.value.effects[k].others = p.effects[k].others
         /\ r.value.finish_time = p.finish_time
         /\ r.value.repeat_after_finish = p.repeat_after_finish
         /\ r.value.lock_buttons = p.lock_buttons
    ELSE r = Raise("KeyError")

\* C8: with a key for every image the program uses, replaced_images returns
\* a program with as many effects in the same order, effect k having the
\* mapped image and the original duration and others, and the original
\* finish_time, repeat_after_finish and lock_buttons; without a key for some
\* image it fails and returns no program; the call leaves the program (and
\* the mapping) it was given as they were.
C8_ImagesReplacedRestCopied ==
    [][(pc = "start" /\ pc' = "done") =>
          (arg' = arg /\ Replaced(arg.program, arg.images_mapping, ret'))]_vars

\* two effects with different images, one of them renamed, others kept
C8_Witness ==
    /\ pc = "done" /\ ret.ok
    /\ Len(arg.program.effects) = 2
    /\ arg.program.effects[1].image = Mountain
    /\ arg.program.effects[2].image = Beach
    /\ ret.value.effects[1].image # Mountain
    /\ Len(ret.value.effects[1].others) = 2

-----------------------------------------------------------------------------
(* The command-line run (__main__) *)

Sunset == <<"s", "u", "n", "s", "e", "t">>
Trailer == SubSeq(ExampleProgramLines, 3, 5)
EffectLine(image) == image \o <<" ", "-", " ", "5", "\n">>

\* program.txt of the input directory, as the list of its lines
ProgramFiles ==
    { ExampleProgramLines,
      <<EffectLine(Beach), EffectLine(Mountain), EffectLine(Beach), EffectLine(Lake)>>
          \o Trailer,
      <<EffectLine(Mountain), Trailer[1], Trailer[2],
        <<"L", "o", "c", "k", " ", "b", "u", "t", "t", "o", "n", "s", " ", "-", " ", "Y", "e", "s">> >>,
      Trailer,
      [k \in 1..(SlotCount + 1) |-> EffectLine(GenName(k))] \o Trailer }

MainAssets == {Beach, Mountain, Lake, Sunset}

InitMain ==
    /\ pc = "main"
    /\ argc \in {2, 3, 4}
    /\ in_dir \in [program : ProgramFiles, assets : SUBSET MainAssets]
    /\ out_dir \in [exists : BOOLEAN, made : {FALSE}, assets : {{}},
                    written : {FALSE}, program : {<<>>}]
    /\ prog = None /\ images = None /\ new_prog = None /\ todo = <<>>
    /\ exc = NoException
    /\ arg = <<>> /\ text = <<>> /\ ret = None /\ NamesIdle

\* len(args) != 3: the usage message, nothing else
Usage ==
    /\ pc = "main" /\ argc # 3
    /\ pc' = "usage"
    /\ UNCHANGED <<arg, text, ret, main_vars, names_vars>>

\* prog = Program.parse_file(...)
ParseFile ==
    /\ pc = "main" /\ argc = 3
    /\ Program_parse_lines(in_dir.program).ok
    /\ prog' = Program_parse_lines(in_dir.program).value
    /\ pc' = "parsed"
    /\ UNCHANGED <<arg, text, ret, argc, in_dir, out_dir, images, new_prog, todo, exc,
                   names_vars>>

ParseFileRaises ==
    /\ pc = "main" /\ argc = 3
    /\ ~Program_parse_lines(in_dir.program).ok
    /\ exc' = [type |-> Program_parse_lines(in_dir.program).error, at |-> "parse_file"]
    /\ pc' = "aborted"
    /\ UNCHANGED <<arg, text, ret, argc, in_dir, out_dir, prog, images, new_prog, todo,
                   names_vars>>

\* convert_names(prog.images): the call
CallConvertNames ==
    /\ pc = "parsed"
    /\ arg' = Program_images(prog)
    /\ pc' = "call_convert_names"
    /\ UNCHANGED <<text, ret, main_vars, names_vars>>

\* images = convert_names(...)
ConvertNamesReturned ==
    /\ pc = "converted" /\ ret.ok
    /\ images' = ret.value
    /\ pc' = "replace"
    /\ UNCHANGED <<arg, text, ret, argc, in_dir, out_dir, prog, new_prog, todo, exc,
                   names_vars>>

ConvertNamesRaised ==
    /\ pc = "converted" /\ ~ret.ok
    /\ exc' = [type |-> ret.error, at |-> "convert_names"]
    /\ pc' = "aborted"
    /\ UNCHANGED <<arg, text, ret, argc, in_dir, out_dir, prog, images, new_prog, todo,
                   names_vars>>

\* new_prog = prog.replaced_images(images)
MainReplaceImages ==
    /\ pc = "replace"
    /\ LET r == Program_replaced_images(prog, images)
       IN  IF r.ok
           THEN new_prog' = r.value /\ pc' = "makedirs" /\ exc' = exc
           ELSE new_prog' = new_prog /\ pc' = "aborted"
                /\ exc' = [type |-> r.error, at |-> "replaced_images"]
    /\ UNCHANGED <<arg, text, ret, argc, in_dir, out_dir, prog, images, todo, names_vars>>

\* os.makedirs(output_dir, exist_ok=True), then copy_images starts iterating
MakeDirs ==
    /\ pc = "makedirs"
    /\ out_dir' = [out_dir EXCEPT !.exists = TRUE, !.made = TRUE]
    /\ todo' = images
    /\ pc' = "copy"
    /\ UNCHANGED <<arg, text, ret, argc, in_dir, prog, images, new_prog, exc, names_vars>>

\* copy_images: one item whose source file exists is copied
CopyImage ==
    /\ pc = "copy" /\ todo # <<>>
    /\ Head(todo).k \in in_dir.assets
    /\ out_dir' = [out_dir EXCEPT !.assets = @ \cup {Head(todo).v}]
    /\ todo' = Tail(todo)
    /\ UNCHANGED <<pc, arg, text, ret, argc, in_dir, prog, images, new_prog, exc, names_vars>>

\* copy_images: the assertion on a missing source file
CopyImageMissing ==
    /\ pc = "copy" /\ todo # <<>>
    /\ Head(todo).k \notin in_dir.assets
    /\ exc' = [type |-> "AssertionError", at |-> "copy_images"]
    /\ pc' = "aborted"
    /\ UNCHANGED <<arg, text, ret, argc, in_dir, out_dir, prog, images, new_prog, todo,
                   names_vars>>

\* the program written before the assets are copied
WriteProgramEarly ==
    /\ pc = "copy" /\ ~out_dir.written
    /\ out_dir' = [out_dir EXCEPT !.written = TRUE,
                                  !.program = Program_str(new_prog) \o <<"\n">>]
    /\ UNCHANGED <<pc, arg, text, ret, argc, in_dir, prog, images, new_prog, todo, exc,
                   names_vars>>

\* print(f"{new_prog}", file=f) after copy_images returned
WriteProgram ==
    /\ pc = "copy" /\ todo = <<>>
    /\ out_dir' = [out_dir EXCEPT !.written = TRUE,
                                  !.program = Program_str(new_prog) \o <<"\n">>]
    /\ pc' = "finished"
    /\ UNCHANGED <<arg, text, ret, argc, in_dir, prog, images, new_prog, todo, exc,
                   names_vars>>

MainNext ==
    \/ Usage \/ ParseFile \/ ParseFileRaises \/ CallConvertNames
    \/ ConvertNamesEnter \/ FirstLoopStep \/ SecondLoopStep \/ ConvertNamesReturn
    \/ ConvertNamesReturned \/ ConvertNamesRaised \/ MainReplaceImages
    \/ MakeDirs \/ CopyImage \/ CopyImageMissing \/ WriteProgram

SpecMain == InitMain /\ [][MainNext]_vars

\* the values copy_images had copied before it met the first missing source
CopiedBeforeMissing ==
    LET missing == {k \in 1..Len(images) : images[k].k \notin in_dir.assets}
    IN  {images[k].v : k \in 1..(Min(missing) - 1)}

\* C9: the output program.txt is written only after parsing, conversion and
\* the copy of every asset of the mapping succeeded; an aborted run never
\* wrote it; a parse or capacity failure comes before the output directory
\* is created or any asset copied; after a missing asset only the assets
\* copied before it are in the output directory.
C9_ProgramWrittenLast ==
    /\ out_dir.written =>
          /\ pc = "finished" /\ exc = NoException
          /\ Program_parse_lines(in_dir.program).ok
          /\ ret.ok
          /\ \A k \in 1..Len(images) :
                images[k].k \in in_dir.assets /\ images[k].v \in out_dir.assets
    /\ pc = "aborted" =>
          /\ ~out_dir.written
          /\ exc.at \in {"parse_file", "convert_names", "copy_images"}
          /\ exc.at \in {"parse_file", "convert_names"} =>
                (~out_dir.made /\ out_dir.assets = {})
          /\ exc.at = "copy_images" => out_dir.assets = CopiedBeforeMissing

\* a run aborted on a missing asset after it had copied another one
C9_Witness ==
    /\ pc = "aborted" /\ exc.at = "copy_images"
    /\ out_dir.assets = {Beach}
    /\ ~out_dir.written

=============================================================================
